---- MODULE Spec2Model ----
(***************************************************************************)
(* News consolidation engine of openclaw-news (fetch-news.js as embedded   *)
(* in README.md, "NEWS CONSOLIDATION ALGORITHM"): preprocessText,          *)
(* jaccardSimilarity, groupSimilarHeadlines, consolidateClusters,          *)
(* scoreItems and consolidateNews.                                         *)
(* The fetch stage of the same file (cleanHeadline, passesFilters,         *)
(* fetchNews, fetchFromBrave and the loop of main) is the last machine.    *)
(*                                                                         *)
(* Representation.                                                         *)
(*  - The text functions work on a sequence of one-character strings, so   *)
(*    that length, case folding, character stripping and splitting are     *)
(*    computed; CharsOf gives the characters of each sample headline.      *)
(*  - A JavaScript number that is a configured fraction is an integer in   *)
(*    hundredths (threshold) or thousandths (weights); a similarity is the *)
(*    exact fraction [num, den]; a score is an integer in millionths.      *)
(*  - An object reference to an element of allItems is its 1-based index.  *)
(*  - A value that may be null / undefined is a sequence of length at     *)
(*    most one: <<>> when absent, <<v>> when present.                      *)
(***************************************************************************)
EXTENDS Integers, Sequences, FiniteSets, TLC

VARIABLES
    config,        \* the global configuration object (news-config.json)
    allHeadlines,  \* the argument of consolidateNews: <<[source, headlines]>>
    pc,            \* "ready" before consolidateNews runs, "done" after it returned
    flatItems,     \* consolidateNews: flatItems
    clusters,      \* consolidateNews: clusters (members are indices into flatItems)
    consolidated,  \* consolidateNews: consolidated
    scored,        \* consolidateNews: scored
    topItems,      \* consolidateNews: the returned topItems
    threw,         \* TRUE when the run ended with an uncaught exception
    returned,      \* the values consolidateNews has returned, one per call
    argTokens1,       \* jaccardSimilarity: the first argument
    argTokens2,       \* jaccardSimilarity: the second argument
    similarity,    \* jaccardSimilarity: the returned value, None before the call
    argText,       \* preprocessText: the argument, a sequence of characters
    resultTokens,  \* preprocessText: the returned array, None before the call
    configSources, \* config.sources
    configFilter,  \* config.filter
    mainPc,        \* main: "loop" in the for-of, "fallback" inside the catch of
                   \* fetchFromBrave, "written" after writeFileSync, "off" when not run
    sourceIndex,   \* main: the position of the for-of in config.sources (from 1)
    allNews,       \* main: allNews
    outputFile,    \* the content of OUTPUT_FILE, None while it is not written
    flagFile,      \* TRUE when /tmp/news-notification.flag exists
    attempts,      \* fetchNews: the requests made so far for the source at hand
    lastResponse,  \* the titles the response held that fetchNews has just handled
    delays,        \* main: the number of inter-source delays that have elapsed
    fetches,       \* one record per fetchNews call that has returned
    sendPc,        \* send-news.sh: the command it is at, "idle" between runs
    sendRun,       \* send-news.sh: what the run under way or just ended has done
    sends,         \* the number of openclaw message send commands started
    flagsMade,     \* the number of times the flag file was brought into being
    sendLog,       \* TRUE when /tmp/news-send.log exists
    clock,         \* the time in hours
    lastFetch,     \* the time fetch-news.js last ran, None before any run
    watchdogFile,  \* the content of WATCHDOG_FILE, None while it does not exist
    wdPc,          \* the watchdog: "restart" while exec runs, "idle" between runs
    wdRun          \* the watchdog: what the run under way or just ended has done

\* the state of a consolidateNews call
engineVars == <<config, allHeadlines, pc, flatItems, clusters, consolidated, scored,
                topItems, threw, returned>>

\* the state of a jaccardSimilarity call
simVars == <<argTokens1, argTokens2, similarity>>

\* the state of a preprocessText call
normVars == <<argText, resultTokens>>

\* the state of a run of main
fetchVars == <<configSources, configFilter, mainPc, sourceIndex, allNews, outputFile,
               flagFile, attempts, lastResponse, delays, fetches>>

\* the state of send-news.sh and of what it writes
sendVars == <<sendPc, sendRun, sends, flagsMade, sendLog>>

\* the state of the watchdog, the clock and the fetcher it watches
watchVars == <<clock, lastFetch, watchdogFile, wdPc, wdRun>>

vars == <<engineVars, simVars, normVars, fetchVars, sendVars, watchVars>>

\* null / undefined, and a present value
None == <<>>
Some(v) == <<v>>

\* x ?? d
Coalesce(x, d) == IF x = None THEN d ELSE x[1]

----------------------------------------------------------------------------
(* Bounds of the model *)

\* greatest number of headlines in one input batch
MaxItems == 4

----------------------------------------------------------------------------
(* Characters and strings *)

LowerLetters ==
    {"a","b","c","d","e","f","g","h","i","j","k","l","m",
     "n","o","p","q","r","s","t","u","v","w","x","y","z"}

UpperLetters ==
    {"A","B","C","D","E","F","G","H","I","J","K","L","M",
     "N","O","P","Q","R","S","T","U","V","W","X","Y","Z"}

Digits == {"0","1","2","3","4","5","6","7","8","9"}

\* the class \w of a JavaScript regular expression
WordChars == LowerLetters \cup UpperLetters \cup Digits \cup {"_"}

\* the class \s, restricted to the white space the sample texts use
SpaceChars == {" ", "\t", "\n"}

LowerOf ==
    [c \in UpperLetters |->
        CASE c = "A" -> "a" [] c = "B" -> "b" [] c = "C" -> "c" [] c = "D" -> "d"
          [] c = "E" -> "e" [] c = "F" -> "f" [] c = "G" -> "g" [] c = "H" -> "h"
          [] c = "I" -> "i" [] c = "J" -> "j" [] c = "K" -> "k" [] c = "L" -> "l"
          [] c = "M" -> "m" [] c = "N" -> "n" [] c = "O" -> "o" [] c = "P" -> "p"
          [] c = "Q" -> "q" [] c = "R" -> "r" [] c = "S" -> "s" [] c = "T" -> "t"
          [] c = "U" -> "u" [] c = "V" -> "v" [] c = "W" -> "w" [] c = "X" -> "x"
          [] c = "Y" -> "y" [] c = "Z" -> "z"]

\* String.prototype.toLowerCase
toLowerCase(text) ==
    [k \in 1..Len(text) |-> IF text[k] \in UpperLetters THEN LowerOf[text[k]] ELSE text[k]]

\* .replace(/[^\w\s]/g, ''): delete every character that is neither \w nor \s
StripNonWord(text) ==
    SelectSeq(text, LAMBDA c : c \in WordChars \cup SpaceChars)

\* .split(/\s+/): cut at every maximal run of white space; a run at either end
\* (and the empty string) yields an empty piece
RECURSIVE SplitFrom(_, _, _, _)
SplitFrom(text, k, cur, out) ==
    IF k > Len(text) THEN Append(out, cur)
    ELSE IF text[k] \in SpaceChars
         THEN IF k > 1 /\ text[k-1] \in SpaceChars
              THEN SplitFrom(text, k + 1, cur, out)
              ELSE SplitFrom(text, k + 1, <<>>, Append(out, cur))
         ELSE SplitFrom(text, k + 1, Append(cur, text[k]), out)

SplitOnSpace(text) == SplitFrom(text, 1, <<>>, <<>>)

STOP_WORDS == {
    <<"t","h","e">>, <<"a">>, <<"a","n">>, <<"i","s">>, <<"a","r","e">>, <<"w","a","s">>,
    <<"w","e","r","e">>, <<"b","e">>, <<"b","e","e","n">>, <<"b","e","i","n","g">>,
    <<"h","a","v","e">>, <<"h","a","s">>, <<"h","a","d">>, <<"d","o">>, <<"d","o","e","s">>,
    <<"d","i","d">>, <<"w","i","l","l">>, <<"w","o","u","l","d">>, <<"c","o","u","l","d">>,
    <<"s","h","o","u","l","d">>, <<"m","a","y">>, <<"m","i","g","h","t">>, <<"m","u","s","t">>,
    <<"s","h","a","l","l">>, <<"c","a","n">>, <<"n","e","e","d">>, <<"d","a","r","e">>,
    <<"t","o">>, <<"o","f">>, <<"i","n">>, <<"f","o","r">>, <<"o","n">>, <<"w","i","t","h">>,
    <<"a","t">>, <<"b","y">>, <<"f","r","o","m">>, <<"a","s">>, <<"i","n","t","o">>,
    <<"t","h","r","o","u","g","h">>, <<"d","u","r","i","n","g">>, <<"b","e","f","o","r","e">>,
    <<"a","f","t","e","r">>, <<"a","b","o","v","e">>, <<"b","e","l","o","w">>,
    <<"b","e","t","w","e","e","n">>, <<"u","n","d","e","r">>, <<"a","g","a","i","n">>,
    <<"f","u","r","t","h","e","r">>, <<"t","h","e","n">>, <<"o","n","c","e">>,
    <<"h","e","r","e">>, <<"t","h","e","r","e">>, <<"w","h","e","n">>, <<"w","h","e","r","e">>,
    <<"w","h","y">>, <<"h","o","w">>, <<"a","l","l">>, <<"e","a","c","h">>, <<"f","e","w">>,
    <<"m","o","r","e">>, <<"m","o","s","t">>, <<"o","t","h","e","r">>, <<"s","o","m","e">>,
    <<"s","u","c","h">>, <<"n","o">>, <<"n","o","r">>, <<"n","o","t">>, <<"o","n","l","y">>,
    <<"o","w","n">>, <<"s","a","m","e">>, <<"s","o">>, <<"t","h","a","n">>, <<"t","o","o">>,
    <<"v","e","r","y">>, <<"j","u","s","t">>, <<"a","l","s","o">>, <<"n","o","w">>,
    <<"a","n","d">>, <<"b","u","t">>, <<"o","r">>, <<"y","e","t">>, <<"i","f">>,
    <<"b","e","c","a","u","s","e">>, <<"a","l","t","h","o","u","g","h">>,
    <<"w","h","i","l","e">>, <<"t","h","a","t">>, <<"w","h","i","c","h">>, <<"w","h","o">>,
    <<"w","h","o","m">>, <<"t","h","i","s">>, <<"t","h","e","s","e">>, <<"t","h","o","s","e">>,
    <<"i","t">>
}

\* the predicate of .filter in preprocessText
\* KeepWord letting words of two characters through
KeepWordOfTwo(word) == Len(word) >= 2 /\ word \notin STOP_WORDS

KeepWord(word) == Len(word) > 2 /\ word \notin STOP_WORDS

preprocessText(text) ==
    SelectSeq(SplitOnSpace(StripNonWord(toLowerCase(text))), KeepWord)

----------------------------------------------------------------------------
(* Similarity *)

\* new Set(tokens)
SetOf(seq) == {seq[k] : k \in 1..Len(seq)}

\* jaccardSimilarity without the test of union.size: 0 / 0 for two empty arguments
jaccardUnguarded(tokens1, tokens2) ==
    [num |-> Cardinality({x \in SetOf(tokens1) : x \in SetOf(tokens2)}),
     den |-> Cardinality(SetOf(tokens1) \cup SetOf(tokens2))]

\* jaccardSimilarity dividing by the size of the first set instead of the union
jaccardOverFirst(tokens1, tokens2) ==
    IF Cardinality(SetOf(tokens1) \cup SetOf(tokens2)) # 0
    THEN [num |-> Cardinality({x \in SetOf(tokens1) : x \in SetOf(tokens2)}),
          den |-> IF SetOf(tokens1) = {} THEN 1 ELSE Cardinality(SetOf(tokens1))]
    ELSE [num |-> 0, den |-> 1]

\* union.size ? intersection.size / union.size : 0, as an exact fraction
\* (den = 0 stands for the NaN of a division 0 / 0)
jaccardSimilarity(tokens1, tokens2) ==
    LET set1 == SetOf(tokens1)
        set2 == SetOf(tokens2)
        intersection == {x \in set1 : x \in set2}
        union == set1 \cup set2
    IN  IF Cardinality(union) # 0
        THEN [num |-> Cardinality(intersection), den |-> Cardinality(union)]
        ELSE [num |-> 0, den |-> 1]

\* config.consolidation?.similarityThreshold ?? 0.5, in hundredths
DefaultThreshold == 50

getSimilarityThreshold(cfg) ==
    IF cfg.consolidation = None THEN DefaultThreshold
    ELSE Coalesce(cfg.consolidation[1].similarityThreshold, DefaultThreshold)

----------------------------------------------------------------------------
(* Sample headline texts *)

\* the headline texts of the sample inputs
Headlines ==
    {"Fed cut tax oil war gas",
     "Fed cut tax oil",
     "Fed cut tax",
     "Oil tax cut FED",
     "It was the."}

\* the characters of each sample text: the headlines above, and the titles of
\* the sample responses of the fetch stage as received and as cleaned
CharsOf ==
    ("Fed cut tax oil war gas" :>
        <<"F","e","d"," ","c","u","t"," ","t","a","x"," ","o","i","l"," ","w","a","r"," ","g","a","s">>) @@
    ("Fed cut tax oil" :>
        <<"F","e","d"," ","c","u","t"," ","t","a","x"," ","o","i","l">>) @@
    ("Fed cut tax" :>
        <<"F","e","d"," ","c","u","t"," ","t","a","x">>) @@
    ("Oil tax cut FED" :>
        <<"O","i","l"," ","t","a","x"," ","c","u","t"," ","F","E","D">>) @@
    ("It was the." :>
        <<"I","t"," ","w","a","s"," ","t","h","e",".">>) @@
    ("Oil &amp; <b>Gas</b>" :>
        <<"O","i","l"," ","&","a","m","p",";"," ","<","b",">","G","a","s","<","/","b",">">>) @@
    ("Oil & Gas" :>
        <<"O","i","l"," ","&"," ","G","a","s">>) @@
    ("buy oil" :>
        <<"b","u","y"," ","o","i","l">>) @@
    ("Gas  tax\n" :>
        <<"G","a","s"," "," ","t","a","x","\n">>) @@
    ("Gas tax" :>
        <<"G","a","s"," ","t","a","x">>)

\* String.prototype.length
Length(text) == Len(CharsOf[text])

\* preprocessText is pure: its result for each sample text, computed once
\* (@@ with the empty function turns the definition into a table)
TokensOf == [h \in DOMAIN CharsOf |-> preprocessText(CharsOf[h])] @@ <<>>

\* jaccardSimilarity is pure: its result for each pair of sample texts,
\* computed once
SimilarityOf ==
    [p \in (DOMAIN CharsOf) \X (DOMAIN CharsOf) |->
        jaccardSimilarity(TokensOf[p[1]], TokensOf[p[2]])] @@ <<>>

----------------------------------------------------------------------------
(* Clustering *)

\* AtLeast with the comparison turned round: similarity <= threshold
AtMost(sim, threshold) == sim.num * 100 <= threshold * sim.den

\* AtLeast with a strict comparison: similarity > threshold
Above(sim, threshold) == sim.num * 100 > threshold * sim.den

\* similarity >= threshold, the fraction against hundredths
AtLeast(sim, threshold) == sim.num * 100 >= threshold * sim.den

\* the similarity computed in the inner loop, for the seed i and the item j
SeedSimilarity(allItems, i, j) ==
    SimilarityOf[<<allItems[i].headline, allItems[j].headline>>]

\* ScanStep without "if (assigned.has(j)) continue"
ScanStepNoAssignedCheck(allItems, threshold, i, j, st) ==
    IF AtLeast(SeedSimilarity(allItems, i, j), threshold)
    THEN [cluster |-> Append(st.cluster, j), assigned |-> st.assigned \cup {j}]
    ELSE st

\* ScanStep comparing the item with the newest member of the cluster, not its seed
ScanStepChained(allItems, threshold, i, j, st) ==
    IF j \in st.assigned THEN st
    ELSE IF AtLeast(SeedSimilarity(allItems, st.cluster[Len(st.cluster)], j), threshold)
         THEN [cluster |-> Append(st.cluster, j), assigned |-> st.assigned \cup {j}]
         ELSE st

\* ScanStep putting the item at the front of the cluster (unshift for push)
ScanStepUnshift(allItems, threshold, i, j, st) ==
    IF j \in st.assigned THEN st
    ELSE IF AtLeast(SeedSimilarity(allItems, i, j), threshold)
         THEN [cluster |-> <<j>> \o st.cluster, assigned |-> st.assigned \cup {j}]
         ELSE st

\* one pass of the inner loop body; st = [cluster, assigned]
ScanStep(allItems, threshold, i, j, st) ==
    IF j \in st.assigned THEN st
    ELSE IF AtLeast(SeedSimilarity(allItems, i, j), threshold)
         THEN [cluster |-> Append(st.cluster, j), assigned |-> st.assigned \cup {j}]
         ELSE st

\* for (let j = i + 1; j < allItems.length; j++)
RECURSIVE ScanFrom(_, _, _, _, _)
ScanFrom(allItems, threshold, i, j, st) ==
    IF j > Len(allItems) THEN st
    ELSE ScanFrom(allItems, threshold, i, j + 1, ScanStep(allItems, threshold, i, j, st))

\* for (let i = 0; i < allItems.length; i++); GroupNext is the end of one
\* pass, clusters.push(cluster), st being the outcome of the inner loop
RECURSIVE GroupFrom(_, _, _, _, _), GroupNext(_, _, _, _, _)
GroupFrom(allItems, threshold, i, cls, assigned) ==
    IF i > Len(allItems) THEN cls
    ELSE IF i \in assigned THEN GroupFrom(allItems, threshold, i + 1, cls, assigned)
    ELSE GroupNext(allItems, threshold, i, cls,
                   ScanFrom(allItems, threshold, i, i + 1,
                            [cluster |-> <<i>>, assigned |-> assigned \cup {i}]))

GroupNext(allItems, threshold, i, cls, st) ==
    GroupFrom(allItems, threshold, i + 1, Append(cls, st.cluster), st.assigned)

\* the set assigned of an earlier call, kept over: every index it put in a cluster
StaleAssigned == UNION {SetOf(clusters[k]) : k \in 1..Len(clusters)}

\* const assigned = new Set(): empty at every call
FreshAssigned == {}

\* the clusters followed by a cluster opened after the last item and left empty
ClustersAtTrailing(allItems, threshold) ==
    Append(GroupFrom(allItems, threshold, 1, <<>>, FreshAssigned), <<>>)

\* the clusters for a given threshold
ClustersAt(allItems, threshold) == GroupFrom(allItems, threshold, 1, <<>>, FreshAssigned)

groupSimilarHeadlines(allItems, cfg) ==
    ClustersAt(allItems, getSimilarityThreshold(cfg))

----------------------------------------------------------------------------
(* Consolidation *)

\* Array.from(new Set(seq)): the distinct elements in order of first occurrence
RECURSIVE UniqueFrom(_, _, _)
UniqueFrom(seq, k, out) ==
    IF k > Len(seq) THEN out
    ELSE IF seq[k] \in SetOf(out) THEN UniqueFrom(seq, k + 1, out)
    ELSE UniqueFrom(seq, k + 1, Append(out, seq[k]))

\* ArrayFromSet without the Set: every element kept
ArrayKeepAll(seq) == seq

ArrayFromSet(seq) == UniqueFrom(seq, 1, <<>>)

\* the callback of cluster.reduce: (a, b) => a.headline.length > b.headline.length ? a : b
Longest(a, b) == IF Length(a.headline) > Length(b.headline) THEN a ELSE b

\* cluster.reduce(callback) without initial value, on a non-empty cluster
RECURSIVE ReduceFrom(_, _, _)
ReduceFrom(members, k, acc) ==
    IF k > Len(members) THEN acc
    ELSE ReduceFrom(members, k + 1, Longest(acc, members[k]))

\* the members of a cluster as items
MembersOf(allItems, cluster) == [k \in 1..Len(cluster) |-> allItems[cluster[k]]]

\* the body of the loop of consolidateClusters, for one non-empty cluster
ConsolidateOne(allItems, cluster) ==
    LET members == MembersOf(allItems, cluster)
        sources == ArrayFromSet([k \in 1..Len(members) |-> members[k].source])
        longest == ReduceFrom(members, 2, members[1])
    IN  [headline |-> longest.headline, sources |-> sources, sourceCount |-> Len(sources)]

\* reduce of an empty array without initial value throws a TypeError
ConsolidateThrows(cls) == \E k \in 1..Len(cls) : Len(cls[k]) = 0

consolidateClusters(allItems, cls) ==
    [k \in 1..Len(cls) |-> ConsolidateOne(allItems, cls[k])]

----------------------------------------------------------------------------
(* Scoring and ranking *)

\* scoring.sourceCountWeight ?? 2.0 and scoring.recencyWeight ?? 1.0, in thousandths
DefaultSourceWeight == 2000
DefaultRecencyWeight == 1000

\* the constant recency 0.5 of scoreItems, in thousandths
RecencyScore == 500

\* the object {}: no weight is configured
EmptyScoring ==
    [sourceCountWeight |-> None, recencyWeight |-> None, engagementWeight |-> None]

\* config.consolidation?.scoring ?? {}
ScoringOf(cfg) ==
    IF cfg.consolidation = None
    THEN EmptyScoring
    ELSE Coalesce(cfg.consolidation[1].scoring, EmptyScoring)

\* ScoreOne with the source weight not multiplied by sourceCount
ScoreOneFlat(item, cfg) ==
    LET scoring == ScoringOf(cfg)
        sourceWeight == Coalesce(scoring.sourceCountWeight, DefaultSourceWeight)
        recencyWeight == Coalesce(scoring.recencyWeight, DefaultRecencyWeight)
    IN  [headline |-> item.headline, sources |-> item.sources,
         sourceCount |-> item.sourceCount,
         score |-> sourceWeight * 1000 + recencyWeight * RecencyScore]

\* the callback of .map in scoreItems; the score is in millionths
ScoreOne(item, cfg) ==
    LET scoring == ScoringOf(cfg)
        sourceWeight == Coalesce(scoring.sourceCountWeight, DefaultSourceWeight)
        recencyWeight == Coalesce(scoring.recencyWeight, DefaultRecencyWeight)
        sourceScore == item.sourceCount * sourceWeight * 1000
        totalScore == sourceScore + recencyWeight * RecencyScore
    IN  [headline |-> item.headline, sources |-> item.sources,
         sourceCount |-> item.sourceCount, score |-> totalScore]

\* CompareScore with the operands swapped: ascending order
CompareScoreAscending(a, b) == a.score - b.score

\* the comparator of .sort: (a, b) => b.score - a.score
CompareScore(a, b) == b.score - a.score

\* Array.prototype.sort is stable: an element is placed after every element
\* already placed that the comparator does not order after it
RECURSIVE InsertFrom(_, _, _)
InsertFrom(sorted, x, k) ==
    IF k > Len(sorted) THEN Append(sorted, x)
    ELSE IF CompareScore(sorted[k], x) > 0
         THEN SubSeq(sorted, 1, k - 1) \o <<x>> \o SubSeq(sorted, k, Len(sorted))
         ELSE InsertFrom(sorted, x, k + 1)

RECURSIVE SortFrom(_, _, _)
SortFrom(items, k, sorted) ==
    IF k > Len(items) THEN sorted
    ELSE SortFrom(items, k + 1, InsertFrom(sorted, items[k], 1))

StableSort(items) == SortFrom(items, 1, <<>>)

\* consolidatedItems.map(...) before the sort
MapScores(consolidatedItems, cfg) ==
    [k \in 1..Len(consolidatedItems) |-> ScoreOne(consolidatedItems[k], cfg)]

scoreItems(consolidatedItems, cfg) == StableSort(MapScores(consolidatedItems, cfg))

\* config.consolidation?.maxItems ?? config.maxItems ?? 3
DefaultMaxItems == 3

\* maxItems read from the consolidation section alone
MaxItemsOfOwnOnly(cfg) ==
    LET own == IF cfg.consolidation = None THEN None ELSE cfg.consolidation[1].maxItems
    IN  Coalesce(own, DefaultMaxItems)

MaxItemsOf(cfg) ==
    LET own == IF cfg.consolidation = None THEN None ELSE cfg.consolidation[1].maxItems
    IN  IF own # None THEN own[1] ELSE Coalesce(cfg.maxItems, DefaultMaxItems)

\* allHeadlines.flatMap(ns => ns.headlines.map(h => ({source: ns.source, headline: h})))
RECURSIVE FlatFrom(_, _, _)
FlatFrom(batch, k, out) ==
    IF k > Len(batch) THEN out
    ELSE FlatFrom(batch, k + 1,
            out \o [m \in 1..Len(batch[k].headlines) |->
                      [source |-> batch[k].source, headline |-> batch[k].headlines[m]]])

FlatMap(batch) == FlatFrom(batch, 1, <<>>)

\* Slice0 taking the last elements instead of the first: slice(-end)
SliceTail(seq, end) ==
    LET n == IF end < 0 THEN 0 ELSE (IF end < Len(seq) THEN end ELSE Len(seq))
    IN  SubSeq(seq, Len(seq) - n + 1, Len(seq))

\* Array.prototype.slice(0, end): a negative end counts from the end of the array
Slice0(seq, end) ==
    LET final == IF end < 0
                 THEN (IF Len(seq) + end > 0 THEN Len(seq) + end ELSE 0)
                 ELSE (IF end < Len(seq) THEN end ELSE Len(seq))
    IN  SubSeq(seq, 1, final)

----------------------------------------------------------------------------
(* Sample inputs *)

\* the names of the configured sources, in configuration order
SourceNames == <<"Bloomberg", "CNBC">>

\* the entry main pushes for a source that returned headlines (none when it returned none)
EntryOf(name, headlines) ==
    IF Len(headlines) > 0 THEN <<[source |-> name, headlines |-> headlines]>> ELSE <<>>

\* the batches of at most MaxItems headlines
Batches ==
    UNION { { EntryOf(SourceNames[1], h1) \o EntryOf(SourceNames[2], h2) :
                h1 \in [1..n[1] -> Headlines], h2 \in [1..n[2] -> Headlines] } :
            n \in {m \in (0..MaxItems) \X (0..MaxItems) : m[1] + m[2] <= MaxItems} }

\* configured thresholds, in hundredths
ThresholdChoices == {None, Some(-10), Some(0), Some(60), Some(70), Some(110)}

\* configured consolidation.maxItems
MaxItemsChoices == {None, Some(-1), Some(0), Some(2)}

\* configured consolidation.scoring, weights in thousandths
ScoringChoices ==
    {None, Some([sourceCountWeight |-> Some(500), recencyWeight |-> None,
                 engagementWeight |-> Some(1000)])}

\* a consolidation section that configures nothing
EmptyConsolidation == [maxItems |-> None, similarityThreshold |-> None, scoring |-> None]

\* the consolidation section absent, empty, or with one option configured
ConsolidationChoices ==
    {None}
    \cup {Some([EmptyConsolidation EXCEPT !.similarityThreshold = t]) : t \in ThresholdChoices}
    \cup {Some([EmptyConsolidation EXCEPT !.maxItems = m]) : m \in MaxItemsChoices}
    \cup {Some([EmptyConsolidation EXCEPT !.scoring = s]) : s \in ScoringChoices}

\* the configurations: without a top-level maxItems, and with one where the
\* consolidation section leaves maxItems open
Configs ==
    [maxItems : {None}, consolidation : ConsolidationChoices]
    \cup [maxItems : {Some(1)}, consolidation : {None, Some(EmptyConsolidation)}]

----------------------------------------------------------------------------
(* The state machine *)

\* no jaccardSimilarity call is under way
SimIdle == argTokens1 = <<>> /\ argTokens2 = <<>> /\ similarity = None

\* no preprocessText call is under way
NormIdle == argText = <<>> /\ resultTokens = None

\* main does not run
MainNotRun ==
    /\ configSources = <<>>
    /\ configFilter = None
    /\ mainPc = "off"
    /\ sourceIndex = 1
    /\ allNews = <<>>
    /\ attempts = <<>>
    /\ lastResponse = <<>>
    /\ delays = 0
    /\ fetches = <<>>

\* send-news.sh is not part of the run
SendOff ==
    /\ sendPc = "off"
    /\ sendRun = None
    /\ sends = 0
    /\ flagsMade = 0
    /\ sendLog = FALSE

\* the watchdog is not part of the run
WatchOff ==
    /\ clock = 0
    /\ lastFetch = None
    /\ watchdogFile = None
    /\ wdPc = "off"
    /\ wdRun = None

\* neither main nor the scripts around it are part of the run
FetchOff ==
    /\ MainNotRun
    /\ outputFile = None
    /\ flagFile = FALSE

\* consolidateNews has produced nothing yet
NothingComputed ==
    /\ flatItems = <<>>
    /\ clusters = <<>>
    /\ consolidated = <<>>
    /\ scored = <<>>
    /\ topItems = <<>>
    /\ threw = FALSE
    /\ returned = <<>>

Init ==
    /\ config \in Configs
    /\ allHeadlines \in Batches
    /\ pc = "ready"
    /\ NothingComputed
    /\ SimIdle
    /\ NormIdle
    /\ FetchOff
    /\ SendOff
    /\ WatchOff

\* the body of consolidateNews(batch), on the configuration as it is now
EngineRun(batch) ==
    /\ flatItems' = FlatMap(batch)
    /\ clusters' = groupSimilarHeadlines(flatItems', config)
    /\ IF ConsolidateThrows(clusters')
       THEN /\ threw' = TRUE
            /\ UNCHANGED <<consolidated, scored, topItems>>
       ELSE /\ consolidated' = consolidateClusters(flatItems', clusters')
            /\ scored' = scoreItems(consolidated', config)
            /\ topItems' = Slice0(scored', MaxItemsOf(config))
            /\ threw' = FALSE
    /\ returned' = IF threw' THEN returned ELSE Append(returned, topItems')

\* a call of consolidateNews on the argument and the configuration as they are
RunConsolidateNews ==
    /\ EngineRun(allHeadlines)
    /\ UNCHANGED <<config, allHeadlines>>
    /\ UNCHANGED <<simVars, normVars, fetchVars, sendVars, watchVars>>

\* one call consolidateNews(allHeadlines)
ConsolidateNews ==
    /\ pc = "ready"
    /\ RunConsolidateNews
    /\ pc' = "done"

Next == ConsolidateNews

Spec == Init /\ [][Next]_vars

----------------------------------------------------------------------------
(* consolidateNews called twice on the same batch *)

\* a second call consolidateNews(allHeadlines), in the state the first call left
ConsolidateAgain ==
    /\ pc = "done"
    /\ RunConsolidateNews
    /\ pc' = "again"

NextTwice == ConsolidateNews \/ ConsolidateAgain

SpecTwice == Init /\ [][NextTwice]_vars

----------------------------------------------------------------------------
(* jaccardSimilarity on its own *)

\* greatest number of tokens in one argument
MaxTokens == 2

\* the tokens of the sample arguments
Tokens == {"fed", "cut", "tax"}

TokenSeqs == UNION {[1..n -> Tokens] : n \in 0..MaxTokens}

\* the engine is not running: no configuration option set, no input
EngineOff ==
    /\ config = [maxItems |-> None, consolidation |-> None]
    /\ allHeadlines = <<>>
    /\ pc = "off"
    /\ NothingComputed

InitJaccard ==
    /\ argTokens1 \in TokenSeqs
    /\ argTokens2 \in TokenSeqs
    /\ similarity = None
    /\ EngineOff
    /\ NormIdle
    /\ FetchOff
    /\ SendOff
    /\ WatchOff

\* one call jaccardSimilarity(argTokens1, argTokens2)
ComputeSimilarity ==
    /\ similarity = None
    /\ similarity' = Some(jaccardSimilarity(argTokens1, argTokens2))
    /\ UNCHANGED <<argTokens1, argTokens2>>
    /\ UNCHANGED <<engineVars, normVars, fetchVars, sendVars, watchVars>>

NextJaccard == ComputeSimilarity

SpecJaccard == InitJaccard /\ [][NextJaccard]_vars

----------------------------------------------------------------------------
(* preprocessText on its own *)

\* the longest sample text, in pieces
MaxPieces == 4

\* the pieces the sample texts are made of
Pieces ==
    { <<"T","h","e">>, <<"f","e","d">>, <<"C","u","t">>, <<"o","n">>, <<"_","9">>,
      <<" ">>, <<"\t">>, <<".">> }

RECURSIVE Concat(_, _)
Concat(seqs, k) == IF k > Len(seqs) THEN <<>> ELSE seqs[k] \o Concat(seqs, k + 1)

\* the sample texts: up to MaxPieces pieces, one after the other
Texts == {Concat(ps, 1) : ps \in UNION {[1..n -> Pieces] : n \in 0..MaxPieces}}

InitNormalize ==
    /\ argText \in Texts
    /\ resultTokens = None
    /\ EngineOff
    /\ SimIdle
    /\ FetchOff
    /\ SendOff
    /\ WatchOff

\* one call preprocessText(text)
PreprocessText ==
    /\ resultTokens = None
    /\ resultTokens' = Some(preprocessText(argText))
    /\ UNCHANGED argText
    /\ UNCHANGED <<engineVars, simVars, fetchVars, sendVars, watchVars>>

NextNormalize == PreprocessText

SpecNormalize == InitNormalize /\ [][NextNormalize]_vars

----------------------------------------------------------------------------
(* Fetch stage: cleaning and filtering of headlines *)
(* Texts are sequences of one-character strings here as well. *)

\* .replace(/pat/g, rep) for a literal pattern: every occurrence, left to right
RECURSIVE ReplaceFrom(_, _, _, _, _)
ReplaceFrom(str, pat, rep, k, out) ==
    IF k > Len(str) THEN out
    ELSE IF k + Len(pat) - 1 <= Len(str) /\ SubSeq(str, k, k + Len(pat) - 1) = pat
         THEN ReplaceFrom(str, pat, rep, k + Len(pat), out \o rep)
         ELSE ReplaceFrom(str, pat, rep, k + 1, Append(out, str[k]))

ReplaceAll(str, pat, rep) == ReplaceFrom(str, pat, rep, 1, <<>>)

\* the first position from k on that holds no digit
RECURSIVE DigitRunEnd(_, _)
DigitRunEnd(str, k) ==
    IF k <= Len(str) /\ str[k] \in Digits THEN DigitRunEnd(str, k + 1) ELSE k

\* .replace(/&#\d+;/g, '')
RECURSIVE StripNumericFrom(_, _, _)
StripNumericFrom(str, k, out) ==
    IF k > Len(str) THEN out
    ELSE LET e == DigitRunEnd(str, k + 2)
         IN  IF /\ str[k] = "&"
                /\ k + 1 <= Len(str) /\ str[k + 1] = "#"
                /\ e > k + 2
                /\ e <= Len(str) /\ str[e] = ";"
             THEN StripNumericFrom(str, e + 1, out)
             ELSE StripNumericFrom(str, k + 1, Append(out, str[k]))

\* the first position from k on that holds ">", Len(str) + 1 when there is none
RECURSIVE FirstCloser(_, _)
FirstCloser(str, k) ==
    IF k > Len(str) \/ str[k] = ">" THEN k ELSE FirstCloser(str, k + 1)

\* .replace(/<[^>]+>/g, '')
RECURSIVE StripTagsFrom(_, _, _)
StripTagsFrom(str, k, out) ==
    IF k > Len(str) THEN out
    ELSE LET g == FirstCloser(str, k + 1)
         IN  IF str[k] = "<" /\ g <= Len(str) /\ g > k + 1
             THEN StripTagsFrom(str, g + 1, out)
             ELSE StripTagsFrom(str, k + 1, Append(out, str[k]))

\* .replace(/\s+/g, ' ')
RECURSIVE CollapseFrom(_, _, _)
CollapseFrom(str, k, out) ==
    IF k > Len(str) THEN out
    ELSE IF str[k] \in SpaceChars
         THEN IF k > 1 /\ str[k - 1] \in SpaceChars
              THEN CollapseFrom(str, k + 1, out)
              ELSE CollapseFrom(str, k + 1, Append(out, " "))
         ELSE CollapseFrom(str, k + 1, Append(out, str[k]))

\* .trim()
RECURSIVE TrimStart(_), TrimEnd(_)
TrimStart(str) ==
    IF Len(str) > 0 /\ str[1] \in SpaceChars THEN TrimStart(Tail(str)) ELSE str

TrimEnd(str) ==
    IF Len(str) > 0 /\ str[Len(str)] \in SpaceChars
    THEN TrimEnd(SubSeq(str, 1, Len(str) - 1)) ELSE str

cleanHeadline(str) ==
    LET amp   == ReplaceAll(str, <<"&","a","m","p",";">>, <<"&">>)
        lt    == ReplaceAll(amp, <<"&","l","t",";">>, <<"<">>)
        gt    == ReplaceAll(lt, <<"&","g","t",";">>, <<">">>)
        quot  == ReplaceAll(gt, <<"&","q","u","o","t",";">>, <<"\"">>)
        num   == StripNumericFrom(quot, 1, <<>>)
        tags  == StripTagsFrom(num, 1, <<>>)
        space == CollapseFrom(tags, 1, <<>>)
    IN  TrimEnd(TrimStart(space))

\* String.prototype.includes
Includes(str, sub) ==
    \E k \in 0..(Len(str) - Len(sub)) : SubSeq(str, k + 1, k + Len(sub)) = sub

\* passesFilters without the keyword check
passesFiltersNoKeywords(headline, f) ==
    LET lower == toLowerCase(headline)
        len   == Len(headline)
    IN  IF len < f.minLength \/ len > f.maxLength THEN FALSE
        ELSE ~ \E k \in 1..Len(f.excludePatterns) :
                   Includes(lower, toLowerCase(f.excludePatterns[k]))

\* passesFilters(headline), f being config.filter
passesFilters(headline, f) ==
    LET lower == toLowerCase(headline)
        len   == Len(headline)
    IN  IF len < f.minLength \/ len > f.maxLength THEN FALSE
        ELSE IF \E k \in 1..Len(f.excludePatterns) :
                   Includes(lower, toLowerCase(f.excludePatterns[k]))
             THEN FALSE
        ELSE IF Len(f.keywords) > 0
                /\ ~ \E k \in 1..Len(f.keywords) :
                       Includes(lower, toLowerCase(f.keywords[k]))
             THEN FALSE
        ELSE TRUE

----------------------------------------------------------------------------
(* main: fetching the configured sources and writing the output file *)

\* the most titles one response holds
MaxTitles == 2

\* the titles responses hold: "Oil &amp; <b>Gas</b>", "buy oil", "Gas  tax\n"
RawTitles ==
    { <<"O","i","l"," ","&","a","m","p",";"," ","<","b",">","G","a","s","<","/","b",">">>,
      <<"b","u","y"," ","o","i","l">>,
      <<"G","a","s"," "," ","t","a","x","\n">> }

\* what /<h[1-4][^>]*>([^<]{30,200})<\/h[1-4]>/ matches: the whole element
WrapHeading(title) == <<"<","h","2",">">> \o title \o <<"<","/","h","2",">">>

\* what ([^<]{30,200}) can capture: titles without "<" (the sample titles are
\* shorter than the 30 characters the two patterns ask for)
PlainCaptures == {t \in RawTitles : \A k \in 1..Len(t) : t[k] # "<"}

HeadingMatches == {WrapHeading(t) : t \in PlainCaptures}

\* cleanHeadline of every text a page can yield, computed once
CleanOf == [t \in RawTitles \cup HeadingMatches |-> cleanHeadline(t)]

\* the sequences of at most n elements of S
SeqsUpTo(S, n) == UNION {[1..m -> S] : m \in 0..n}

\* a fetched page, given by what the three patterns of fetchNews find in it
PageResponses ==
    {r \in [cdata : SeqsUpTo(RawTitles, MaxTitles),
            plain : SeqsUpTo(PlainCaptures, MaxTitles),
            hTags : SeqsUpTo(HeadingMatches, MaxTitles)] :
        Len(r.cdata) + Len(r.plain) + Len(r.hTags) <= MaxTitles}

\* a parsed search response, given by the titles of its results
SearchResponses == SeqsUpTo(RawTitles, MaxTitles)

\* config.filter
Filters ==
    { [minLength |-> 5, maxLength |-> 15, excludePatterns |-> << <<"B","U","Y">> >>,
       keywords |-> <<>>],
      [minLength |-> 8, maxLength |-> 20, excludePatterns |-> <<>>,
       keywords |-> << <<"O","I","L">> >>] }

PageSource == [name |-> "CNBC", enabled |-> TRUE, kind |-> "page", maxHeadlines |-> 1]
DisabledSource == [name |-> "BBC", enabled |-> FALSE, kind |-> "page", maxHeadlines |-> 1]
BraveSource == [name |-> "Brave", enabled |-> TRUE, kind |-> "brave", maxHeadlines |-> 2]

\* config.sources
SourceLists == { <<PageSource, BraveSource>>, <<BraveSource, DisabledSource, PageSource>> }

\* headlines.includes(clean)
InSeq(seq, x) == \E k \in 1..Len(seq) : seq[k] = x

\* one while / for loop of fetchNews over the matches of a pattern
RECURSIVE CollectClean(_, _, _, _)
CollectClean(matches, k, f, headlines) ==
    IF k > Len(matches) THEN headlines
    ELSE CollectClean(matches, k + 1, f,
            IF passesFilters(CleanOf[matches[k]], f) /\ ~InSeq(headlines, CleanOf[matches[k]])
            THEN Append(headlines, CleanOf[matches[k]])
            ELSE headlines)

\* the try block of fetchNews after curl has returned
PageHeadlines(response, source, f) ==
    LET fromCdata == CollectClean(response.cdata, 1, f, <<>>)
        fromPlain == IF Len(fromCdata) < source.maxHeadlines
                     THEN CollectClean(response.plain, 1, f, fromCdata)
                     ELSE fromCdata
        fromHTags == IF Len(fromPlain) < source.maxHeadlines
                     THEN CollectClean(response.hTags, 1, f, fromPlain)
                     ELSE fromPlain
    IN  Slice0(fromHTags, source.maxHeadlines)

\* for (const result of data.results) of fetchFromBrave
RECURSIVE CollectTitles(_, _, _, _)
CollectTitles(titles, k, f, headlines) ==
    IF k > Len(titles) THEN headlines
    ELSE CollectTitles(titles, k + 1, f,
            IF passesFilters(titles[k], f) THEN Append(headlines, titles[k])
            ELSE headlines)

\* a try block of fetchFromBrave after JSON.parse
BraveHeadlines(titles, source, f) ==
    Slice0(CollectTitles(titles, 1, f, <<>>), source.maxHeadlines)

\* a catch that hands on what the try block had collected
AfterErrorKeep(collected) == collected

\* catch (error) { ...; return []; }
AfterError(collected) == <<>>

\* the ways a request fails: a missing token or key, a failing curl, a
\* response that does not parse or holds a malformed result
Failures == {"credentials", "request", "response"}

\* the configurations of the engine the fetch stage is run with
FetchConfigs ==
    { [maxItems |-> None, consolidation |-> None],
      [maxItems |-> None, consolidation |-> Some([EmptyConsolidation EXCEPT !.maxItems = Some(0)])] }

InitFetch ==
    /\ configSources \in SourceLists
    /\ configFilter \in Filters
    /\ mainPc = "loop"
    /\ sourceIndex = 1
    /\ allNews = <<>>
    /\ outputFile = None
    /\ flagFile \in BOOLEAN
    /\ attempts = <<>>
    /\ lastResponse = <<>>
    /\ delays = 0
    /\ fetches = <<>>
    /\ config \in FetchConfigs
    /\ allHeadlines = <<>>
    /\ pc = "off"
    /\ NothingComputed
    /\ SimIdle
    /\ NormIdle
    /\ SendOff
    /\ WatchOff

\* the source the for-of of main is at
Source == configSources[sourceIndex]

AtSource == mainPc = "loop" /\ sourceIndex <= Len(configSources)

\* allNews.unshift(entry)
UnshiftNews(news, entry) == <<entry>> \o news

\* allNews.push(entry)
PushNews(news, entry) == Append(news, entry)

\* the request that gave the result: the last one made, "none" without any
Via(tried) == IF tried = <<>> THEN "none" ELSE tried[Len(tried)].api

\* main, after fetchNews(source) has returned headlines; tried lists the
\* requests made, failed tells that it ended in a catch, raw is what the last
\* response held (held: how many titles)
Fetched(headlines, tried, failed, raw) ==
    /\ allNews' = IF Len(headlines) > 0
                  THEN PushNews(allNews, [source |-> Source.name, headlines |-> headlines])
                  ELSE allNews
    /\ fetches' = Append(fetches, [source |-> sourceIndex, via |-> Via(tried),
                                   attempts |-> tried, failed |-> failed,
                                   held |-> Len(raw), headlines |-> headlines])
    /\ lastResponse' = raw
    /\ attempts' = <<>>
    /\ mainPc' = "delay"
    /\ UNCHANGED <<configSources, configFilter, sourceIndex, outputFile, flagFile, delays>>
    /\ UNCHANGED <<engineVars, simVars, normVars, sendVars, watchVars>>

\* fetchFromBrave enters the catch of the gateway request
Fallback(tried) ==
    /\ attempts' = tried
    /\ mainPc' = "fallback"
    /\ UNCHANGED <<configSources, configFilter, sourceIndex, allNews, outputFile, flagFile,
                   lastResponse, delays, fetches>>
    /\ UNCHANGED <<engineVars, simVars, normVars, sendVars, watchVars>>

\* a request and its outcome
Request(api, ok, reason) == [api |-> api, ok |-> ok, reason |-> reason]

\* fetchFromBrave going on to the direct API whatever the gateway gave
AfterGatewayAlwaysDirect(ok) == "fallback"

\* fetchFromBrave after the gateway request: return from the try, or the catch
AfterGateway(ok) == IF ok THEN "return" ELSE "fallback"

\* await new Promise(r => setTimeout(r, config.requestDelay)), end of a pass
Delay ==
    /\ mainPc = "delay"
    /\ delays' = delays + 1
    /\ sourceIndex' = sourceIndex + 1
    /\ mainPc' = "loop"
    /\ lastResponse' = <<>>
    /\ UNCHANGED <<configSources, configFilter, allNews, outputFile, flagFile, attempts, fetches>>
    /\ UNCHANGED <<engineVars, simVars, normVars, sendVars, watchVars>>

\* fetchNews of a disabled source
SkipDisabled ==
    /\ AtSource
    /\ ~Source.enabled
    /\ Fetched(<<>>, attempts, FALSE, <<>>)

\* fetchNews of a page: curl returns a page
FetchPage ==
    /\ AtSource
    /\ Source.enabled /\ Source.kind = "page"
    /\ \E response \in PageResponses :
         Fetched(PageHeadlines(response, Source, configFilter),
                 Append(attempts, Request("page", TRUE, "none")), FALSE,
                 response.cdata \o response.plain \o response.hTags)

\* fetchNews of a page: execSync throws (network error, timeout)
FetchPageFails ==
    /\ AtSource
    /\ Source.enabled /\ Source.kind = "page"
    /\ Fetched(AfterError(<<>>), Append(attempts, Request("page", FALSE, "request")),
               TRUE, <<>>)

\* fetchFromBrave: the gateway answers with results
FetchGateway ==
    /\ AtSource
    /\ Source.enabled /\ Source.kind = "brave"
    /\ \E titles \in SearchResponses :
         IF AfterGateway(TRUE) = "return"
         THEN Fetched(BraveHeadlines(titles, Source, configFilter),
                      Append(attempts, Request("gateway", TRUE, "none")), FALSE, titles)
         ELSE Fallback(Append(attempts, Request("gateway", TRUE, "none")))

\* fetchFromBrave: the first try block throws (no gateway token, curl fails,
\* the response does not parse); what it had collected is dropped
FetchGatewayFails ==
    /\ AtSource
    /\ Source.enabled /\ Source.kind = "brave"
    /\ \E reason \in Failures :
         IF AfterGateway(FALSE) = "return"
         THEN Fetched(<<>>, Append(attempts, Request("gateway", FALSE, reason)), TRUE, <<>>)
         ELSE Fallback(Append(attempts, Request("gateway", FALSE, reason)))

\* fetchFromBrave: the direct API answers with results
FetchDirect ==
    /\ mainPc = "fallback"
    /\ \E titles \in SearchResponses :
         Fetched(BraveHeadlines(titles, Source, configFilter),
                 Append(attempts, Request("direct", TRUE, "none")), FALSE, titles)

\* fetchFromBrave: the second try block throws (no API key, curl fails, the
\* response does not parse, or a result is malformed after some were handled)
FetchDirectFails ==
    /\ mainPc = "fallback"
    /\ \E reason \in Failures :
         \E titles \in (IF reason = "response" THEN SeqsUpTo(RawTitles, 1) ELSE {<<>>}) :
            Fetched(AfterError(CollectTitles(titles, 1, configFilter, <<>>)),
                    Append(attempts, Request("direct", FALSE, reason)), TRUE, titles)

\* main: nothing was fetched
WriteApology ==
    /\ mainPc = "loop"
    /\ sourceIndex > Len(configSources)
    /\ Len(allNews) = 0
    /\ outputFile' = Some([kind |-> "apology"])
    /\ mainPc' = "written"
    /\ UNCHANGED <<configSources, configFilter, sourceIndex, allNews, flagFile, attempts,
                   lastResponse, delays, fetches>>
    /\ UNCHANGED <<engineVars, simVars, normVars, sendVars, watchVars>>

\* the string that has the given characters
StringOf(chars) == CHOOSE h \in DOMAIN CharsOf : CharsOf[h] = chars

\* allNews as the argument of consolidateNews, its headlines as strings
EngineInput(news) ==
    [n \in 1..Len(news) |->
        [source |-> news[n].source,
         headlines |-> [m \in 1..Len(news[n].headlines) |-> StringOf(news[n].headlines[m])]]]

\* a message that reports every configured source
AllConfigured(news) == Len(configSources)

\* ${allNews.length} of the message
SourceCount(news) == Len(news)

\* the numbered stories of the message: headline and "Sources: ..."
StoriesOf(topNews) ==
    [k \in 1..Len(topNews) |-> [headline |-> topNews[k].headline, sources |-> topNews[k].sources]]

\* main: consolidateNews(allNews), the message and writeFileSync; an exception
\* of the engine would end main before the file is written
WriteDigest ==
    /\ mainPc = "loop"
    /\ sourceIndex > Len(configSources)
    /\ Len(allNews) > 0
    /\ allHeadlines' = EngineInput(allNews)
    /\ EngineRun(allHeadlines')
    /\ pc' = "done"
    /\ IF threw'
       THEN mainPc' = "failed" /\ UNCHANGED outputFile
       ELSE /\ mainPc' = "written"
            /\ outputFile' = Some([kind |-> "digest", sources |-> SourceCount(allNews),
                                   stories |-> StoriesOf(topItems')])
    /\ UNCHANGED <<configSources, configFilter, sourceIndex, allNews, flagFile, attempts,
                   lastResponse, delays, fetches>>
    /\ UNCHANGED <<config, simVars, normVars, sendVars, watchVars>>

NextFetch ==
    \/ SkipDisabled
    \/ FetchPage
    \/ FetchPageFails
    \/ FetchGateway
    \/ FetchGatewayFails
    \/ FetchDirect
    \/ FetchDirectFails
    \/ Delay
    \/ WriteApology
    \/ WriteDigest

SpecFetch == InitFetch /\ [][NextFetch]_vars

\* ---------------------------------------------------------------------------
\* send-news.sh (src/unnamed/part_000 52-75), run one at a time by the
\* service, with the flag file and the news file written around it
\* ---------------------------------------------------------------------------

\* the number of times the flag file is brought into being in a behaviour
MaxFlags == 3

\* what OUTPUT_FILE can hold once fetch-news.js has written it
NewsFiles ==
    { Some([kind |-> "apology"]),
      Some([kind |-> "digest", sources |-> 1,
            stories |-> <<[headline |-> "Gas tax", sources |-> <<"CNBC">>]>>]) }

\* a run of send-news.sh that has done nothing yet
FreshSend ==
    [sawFlag |-> FALSE, sawNews |-> FALSE, changed |-> {}, sent |-> None, exit |-> None]

InitSend ==
    /\ flagFile \in BOOLEAN
    /\ outputFile \in {None} \cup NewsFiles
    /\ sendPc = "idle"
    /\ sendRun = None
    /\ sends = 0
    /\ flagsMade = IF flagFile THEN 1 ELSE 0
    /\ sendLog = FALSE
    /\ MainNotRun
    /\ EngineOff
    /\ SimIdle
    /\ NormIdle
    /\ WatchOff

\* what send-news.sh leaves alone
SendFrame == UNCHANGED <<configSources, configFilter, mainPc, sourceIndex, allNews,
                         attempts, lastResponse, delays, fetches,
                         engineVars, simVars, normVars, watchVars>>

\* echo "1" > /tmp/news-notification.flag
CreateFlag ==
    /\ flagsMade < MaxFlags
    /\ ~flagFile
    /\ flagFile' = TRUE
    /\ flagsMade' = flagsMade + 1
    /\ UNCHANGED <<outputFile, sendPc, sendRun, sends, sendLog>>
    /\ SendFrame

\* fetch-news.js writes OUTPUT_FILE
WriteNews ==
    /\ \E content \in NewsFiles :
          /\ content # outputFile
          /\ outputFile' = content
    /\ UNCHANGED <<flagFile, sendVars>>
    /\ SendFrame

\* the service starts send-news.sh
StartSend ==
    /\ sendPc = "idle"
    /\ sendPc' = "flag"
    /\ sendRun' = Some(FreshSend)
    /\ UNCHANGED <<flagFile, outputFile, sends, flagsMade, sendLog>>
    /\ SendFrame

\* a script that goes on whatever [ -f "$FLAG_FILE" ] gives
AfterFlagTestGoOn(present) == "rm"

\* if [ -f "$FLAG_FILE" ]; then ... fi
AfterFlagTest(present) == IF present THEN "rm" ELSE "idle"

\* a script that leaves the flag file where it is
KeepFlag(present) == present

\* rm "$FLAG_FILE"
RemoveFlag(present) == FALSE

\* [ -f "$FLAG_FILE" ]; without the flag the script ends, its status 0
TestFlag ==
    /\ sendPc = "flag"
    /\ sendPc' = AfterFlagTest(flagFile)
    /\ sendRun' = Some([sendRun[1] EXCEPT !.sawFlag = flagFile,
                                          !.exit = IF sendPc' = "idle" THEN Some(0) ELSE None])
    /\ UNCHANGED <<flagFile, outputFile, sends, flagsMade, sendLog>>
    /\ SendFrame

\* rm "$FLAG_FILE"
Remove ==
    /\ sendPc = "rm"
    /\ flagFile' = RemoveFlag(flagFile)
    /\ sendPc' = "news"
    /\ sendRun' = Some([sendRun[1] EXCEPT
                          !.changed = IF flagFile' # flagFile THEN @ \cup {"flag"} ELSE @])
    /\ UNCHANGED <<outputFile, sends, flagsMade, sendLog>>
    /\ SendFrame

\* [ -f "$NEWS_FILE" ]; else echo "No news file found", status 0
TestNews ==
    /\ sendPc = "news"
    /\ sendPc' = IF outputFile # None THEN "send" ELSE "idle"
    /\ sendRun' = Some([sendRun[1] EXCEPT !.sawNews = (outputFile # None),
                                          !.exit = IF outputFile # None THEN None ELSE Some(0)])
    /\ UNCHANGED <<flagFile, outputFile, sends, flagsMade, sendLog>>
    /\ SendFrame

\* NEWS_CONTENT=$(cat "$NEWS_FILE"); openclaw message send ... > /tmp/news-send.log 2>&1 &
\* echo "Notification sent"
Send ==
    /\ sendPc = "send"
    /\ sends' = sends + 1
    /\ sendLog' = TRUE
    /\ sendPc' = "idle"
    /\ sendRun' = Some([sendRun[1] EXCEPT !.sent = Some(outputFile), !.exit = Some(0),
                                          !.changed = @ \cup {"log"}])
    /\ UNCHANGED <<flagFile, outputFile, flagsMade>>
    /\ SendFrame

NextSend ==
    \/ CreateFlag
    \/ WriteNews
    \/ StartSend
    \/ TestFlag
    \/ Remove
    \/ TestNews
    \/ Send

SpecSend == InitSend /\ [][NextSend]_vars

\* ---------------------------------------------------------------------------
\* the watchdog (src/github-upload.js 210-287), the fetcher it watches, and
\* the clock, in hours
\* ---------------------------------------------------------------------------

\* const MAX_AGE_HOURS = 25
MAX_AGE_HOURS == 25

\* the hours that pass between two moments at which something is run
TickHours == 5

\* the last hour of a behaviour
MaxClock == 30

\* a WATCHDOG_FILE that JSON.parse rejects
NotJson == [json |-> "none", lastRun |-> None]

\* a WATCHDOG_FILE holding the JSON null: reading data.lastRun throws
JsonNull == [json |-> "null", lastRun |-> None]

\* a WATCHDOG_FILE holding an object whose lastRun is absent or is no date
NoDate == [json |-> "object", lastRun |-> None]

\* JSON.stringify({ lastRun: new Date().toISOString() })
Record(now) == [json |-> "object", lastRun |-> Some(now)]

\* getLastRun: null, or Some of the Date made of data.lastRun, an Invalid Date
\* (valid FALSE) when data.lastRun is no date
getLastRun(file) ==
    IF file = None THEN None
    ELSE IF file[1].json # "object" THEN None
    ELSE IF file[1].lastRun = None THEN Some([valid |-> FALSE, time |-> 0])
    ELSE Some([valid |-> TRUE, time |-> file[1].lastRun[1]])

\* hoursSinceLastRun > MAX_AGE_HOURS, which is false of NaN
TooOld(lastRun, now) == lastRun.valid /\ now - lastRun.time > MAX_AGE_HOURS

\* a check that takes every record it can read for a healthy one
checkHealthAnyRecord(file, now) == getLastRun(file) # None

\* checkHealth
checkHealth(file, now) ==
    IF getLastRun(file) = None THEN FALSE
    ELSE IF TooOld(getLastRun(file)[1], now) THEN FALSE
    ELSE TRUE

\* a watchdog that writes the record however the restart ended
AfterRestartAlways(file, ok, now) == Some(Record(now))

\* the callback of exec: setLastRun() unless the restart ended in an error
AfterRestart(file, ok, now) == IF ok THEN Some(Record(now)) ELSE file

\* the fetcher has run, and not within the last MAX_AGE_HOURS hours
FetcherStale == lastFetch # None /\ clock - lastFetch[1] > MAX_AGE_HOURS

\* what the record is at the check: "missing", "unparsable" or "dated"
RecordClass(file) ==
    IF file = None THEN "missing"
    ELSE IF file[1].lastRun = None THEN "unparsable"
    ELSE "dated"

\* a run of the watchdog up to the end of checkHealth
Checked(healthy) ==
    [stale |-> FetcherStale, record |-> RecordClass(watchdogFile), healthy |-> healthy,
     restart |-> "none", untouched |-> TRUE, exit |-> None]

InitWatchdog ==
    /\ clock = 0
    /\ lastFetch = None
    /\ watchdogFile \in {None, Some(NotJson), Some(JsonNull), Some(NoDate)}
    /\ wdPc = "idle"
    /\ wdRun = None
    /\ FetchOff
    /\ SendOff
    /\ EngineOff
    /\ SimIdle
    /\ NormIdle

\* what the watchdog and the clock leave alone
WatchFrame == UNCHANGED <<engineVars, simVars, normVars, fetchVars, sendVars>>

\* time passes between two runs
Tick ==
    /\ wdPc = "idle"
    /\ clock + TickHours <= MaxClock
    /\ clock' = clock + TickHours
    /\ UNCHANGED <<lastFetch, watchdogFile, wdPc, wdRun>>
    /\ WatchFrame

\* the service runs fetch-news.js, which writes nothing the watchdog reads
FetcherRuns ==
    /\ wdPc = "idle"
    /\ lastFetch # Some(clock)
    /\ lastFetch' = Some(clock)
    /\ UNCHANGED <<clock, watchdogFile, wdPc, wdRun>>
    /\ WatchFrame

\* runWatchdog: healthy, setLastRun(), process.exit(0)
WatchdogHealthy ==
    /\ wdPc = "idle"
    /\ checkHealth(watchdogFile, clock)
    /\ watchdogFile' = Some(Record(clock))
    /\ wdRun' = Some([Checked(TRUE) EXCEPT !.untouched = (watchdogFile' = watchdogFile),
                                           !.exit = Some(0)])
    /\ UNCHANGED <<clock, lastFetch, wdPc>>
    /\ WatchFrame

\* runWatchdog: not healthy, exec of fetch-news.js is started
WatchdogUnhealthy ==
    /\ wdPc = "idle"
    /\ ~checkHealth(watchdogFile, clock)
    /\ wdPc' = "restart"
    /\ wdRun' = Some(Checked(FALSE))
    /\ UNCHANGED <<clock, lastFetch, watchdogFile>>
    /\ WatchFrame

\* runWatchdog: not healthy, exec throws: catch (e), process.exit(1)
ExecThrows ==
    /\ wdPc = "idle"
    /\ ~checkHealth(watchdogFile, clock)
    /\ wdRun' = Some([Checked(FALSE) EXCEPT !.restart = "threw", !.exit = Some(1)])
    /\ UNCHANGED <<clock, lastFetch, watchdogFile, wdPc>>
    /\ WatchFrame

\* the callback of exec without error: setLastRun(), process.exit(0)
RestartDone ==
    /\ wdPc = "restart"
    /\ lastFetch' = Some(clock)
    /\ watchdogFile' = AfterRestart(watchdogFile, TRUE, clock)
    /\ wdRun' = Some([wdRun[1] EXCEPT !.restart = "ok",
                                      !.untouched = (watchdogFile' = watchdogFile),
                                      !.exit = Some(0)])
    /\ wdPc' = "idle"
    /\ UNCHANGED clock
    /\ WatchFrame

\* the callback of exec with an error: process.exit(1)
RestartFails ==
    /\ wdPc = "restart"
    /\ watchdogFile' = AfterRestart(watchdogFile, FALSE, clock)
    /\ wdRun' = Some([wdRun[1] EXCEPT !.restart = "failed",
                                      !.untouched = (watchdogFile' = watchdogFile),
                                      !.exit = Some(1)])
    /\ wdPc' = "idle"
    /\ UNCHANGED <<clock, lastFetch>>
    /\ WatchFrame

NextWatchdog ==
    \/ Tick
    \/ FetcherRuns
    \/ WatchdogHealthy
    \/ WatchdogUnhealthy
    \/ ExecThrows
    \/ RestartDone
    \/ RestartFails

SpecWatchdog == InitWatchdog /\ [][NextWatchdog]_vars

----------------------------------------------------------------------------
(* Properties *)

\* consolidateNews has returned
Returned == pc = "done" /\ ~threw

\* the threshold in force
Threshold == getSimilarityThreshold(config)

\* the thresholds the configurations can put in force
ThresholdValues == {Coalesce(t, DefaultThreshold) : t \in ThresholdChoices}

\* the first member of each cluster
Seeds(cls) == {cls[k][1] : k \in 1..Len(cls)}

\* item i stands at place m of cluster k
At(cls, k, m, i) == k \in 1..Len(cls) /\ m \in 1..Len(cls[k]) /\ cls[k][m] = i

\* item i stands at exactly one place of the clusters
OccursOnce(cls, i) ==
    \E k \in 1..Len(cls) : \E m \in 1..Len(cls[k]) :
        /\ cls[k][m] = i
        /\ \A k2 \in 1..Len(cls) : \A m2 \in 1..Len(cls[k2]) :
             At(cls, k2, m2, i) => (k2 = k /\ m2 = m)

\* the number of the cluster that holds item i
ClusterOf(cls, i) == CHOOSE k \in 1..Len(cls) : i \in SetOf(cls[k])

\* similarity(normalize(items[i].headline), normalize(items[j].headline)) >= threshold
Similar(items, i, j, threshold) ==
    LET sim == jaccardSimilarity(TokensOf[items[i].headline],
                                 TokensOf[items[j].headline])
    IN  sim.num * 100 >= threshold * sim.den

Least(S) == CHOOSE x \in S : \A y \in S : x <= y

\* C1: the clusters partition the input: every input item (by index) occurs in
\* exactly one cluster, exactly once, no cluster is empty, and the clusters hold
\* nothing but input items (so their concatenation is a permutation of the input).
C1_ClustersPartitionInput ==
    pc = "done" =>
        /\ \A k \in 1..Len(clusters) : Len(clusters[k]) > 0
        /\ \A k \in 1..Len(clusters) : SetOf(clusters[k]) \subseteq 1..Len(flatItems)
        /\ \A i \in 1..Len(flatItems) : OccursOnce(clusters, i)

\* C1 witness: three items were grouped into a cluster of two and a singleton
C1_Witness ==
    /\ pc = "done"
    /\ Len(flatItems) = 3
    /\ Len(clusters) = 2
    /\ \E k \in 1..Len(clusters) : Len(clusters[k]) = 2

\* C2: clustering is seed-anchored: an item joins the cluster of the earliest
\* seed before it that it is similar to (at the threshold in force), and becomes
\* a seed itself exactly when there is no such seed; similarity to members that
\* are not seeds plays no part.
C2_SeedAnchored ==
    pc = "done" =>
        \A j \in 1..Len(flatItems) :
            LET matching == {i \in Seeds(clusters) :
                                i < j /\ Similar(flatItems, i, j, Threshold)}
            IN  IF matching = {}
                THEN j \in Seeds(clusters)
                ELSE /\ j \notin Seeds(clusters)
                     /\ clusters[ClusterOf(clusters, j)][1] = Least(matching)

\* C2 witness: an item is similar to a non-seed member of an earlier cluster,
\* not to that cluster's seed, and stands in a cluster of its own
C2_Witness ==
    /\ pc = "done"
    /\ \E k \in 1..Len(clusters) : \E m \in 2..Len(clusters[k]) :
         \E j \in Seeds(clusters) :
            /\ clusters[k][m] < j
            /\ Similar(flatItems, clusters[k][m], j, Threshold)
            /\ ~Similar(flatItems, clusters[k][1], j, Threshold)

\* every cluster of fine lies within one cluster of coarse
Refines(fine, coarse) ==
    \A k \in 1..Len(fine) : \E c \in 1..Len(coarse) :
        SetOf(fine[k]) \subseteq SetOf(coarse[c])

\* C3 as stated: for every higher threshold the partition is the partition at
\* the threshold in force or a fragmentation of it, and has no fewer clusters.
C3_RaisingThresholdOnlyFragments ==
    pc = "done" =>
        \A t2 \in ThresholdValues :
            t2 > Threshold =>
                /\ Refines(ClustersAt(flatItems, t2), clusters)
                /\ Len(ClustersAt(flatItems, t2)) >= Len(clusters)

\* C3 amended: for every higher threshold the first cluster (the one seeded by
\* the first input item) has no member it does not have at the threshold in force.
C3_FirstClusterShrinks ==
    (pc = "done" /\ Len(flatItems) > 0) =>
        \A t2 \in ThresholdValues :
            t2 > Threshold =>
                SetOf(ClustersAt(flatItems, t2)[1]) \subseteq SetOf(clusters[1])

\* C3 witness: at a higher threshold the first cluster loses a member, and that
\* member then takes in an item of another cluster
C3_Witness ==
    /\ pc = "done"
    /\ Len(flatItems) > 0
    /\ \E t2 \in ThresholdValues :
         /\ t2 > Threshold
         /\ SetOf(ClustersAt(flatItems, t2)[1]) # SetOf(clusters[1])
         /\ ~Refines(ClustersAt(flatItems, t2), clusters)

\* the greatest headline length among the members of a cluster
GreatestLength(items, cluster) ==
    Least({n \in {Length(items[cluster[m]].headline) : m \in 1..Len(cluster)} :
              \A m \in 1..Len(cluster) : Length(items[cluster[m]].headline) <= n})

\* the first member, in cluster order, that has the greatest headline length
FirstLongest(items, cluster) ==
    items[cluster[Least({m \in 1..Len(cluster) :
              Length(items[cluster[m]].headline) = GreatestLength(items, cluster)})]]

\* C4 as stated: the headline of every consolidated item is that of the member
\* of its cluster with the greatest raw length, the first such member in cluster
\* order when several share that length.
C4_RepresentativeIsFirstLongest ==
    Returned =>
        \A k \in 1..Len(consolidated) :
            consolidated[k].headline = FirstLongest(flatItems, clusters[k]).headline

\* the source names of the members of a cluster
SourceNamesOf(items, cluster) == {items[cluster[m]].source : m \in 1..Len(cluster)}

\* C5: for every consolidated item, sources holds exactly the source names of
\* the members of its cluster, each once, and sourceCount is the number of
\* entries of sources and is at least 1.
C5_SourcesAreDistinctMemberSources ==
    Returned =>
        /\ Len(consolidated) = Len(clusters)
        /\ \A k \in 1..Len(consolidated) :
             LET names == SourceNamesOf(flatItems, clusters[k])
                 item == consolidated[k]
             IN  /\ SetOf(item.sources) = names
                 /\ Len(item.sources) = Cardinality(names)
                 /\ item.sourceCount = Len(item.sources)
                 /\ item.sourceCount >= 1

\* C5 witness: a cluster of three members, two of them from one source and the
\* third from another, was consolidated
C5_Witness ==
    /\ Returned
    /\ \E k \in 1..Len(consolidated) :
         /\ Len(clusters[k]) = 3
         /\ consolidated[k].sourceCount = 2

\* the engagement score 0.3 of an item without engagement signal, and the
\* engagement weight 0.5 used when none is configured, in thousandths
ClaimedEngagementScore == 300
ClaimedEngagementWeight == 500

\* C6 as stated: every score is sourceCount * sourceCountWeight
\* + 0.5 * recencyWeight + 0.3 * engagementWeight, the weights defaulting to
\* 2.0, 1.0 and 0.5 (in millionths).
C6_ScoreIsWeightedSumOfThree ==
    Returned =>
        \A k \in 1..Len(scored) :
            LET scoring == ScoringOf(config)
                sw == Coalesce(scoring.sourceCountWeight, DefaultSourceWeight)
                rw == Coalesce(scoring.recencyWeight, DefaultRecencyWeight)
                ew == Coalesce(scoring.engagementWeight, ClaimedEngagementWeight)
            IN  scored[k].score = scored[k].sourceCount * sw * 1000
                                  + RecencyScore * rw + ClaimedEngagementScore * ew

\* no weight is configured
DefaultWeights ==
    /\ ScoringOf(config).sourceCountWeight = None
    /\ ScoringOf(config).recencyWeight = None

\* C7: under the default weights an item with a strictly greater sourceCount
\* has a strictly higher score.
C7_SourceCountDominates ==
    (Returned /\ DefaultWeights) =>
        \A a \in 1..Len(scored) : \A b \in 1..Len(scored) :
            scored[a].sourceCount > scored[b].sourceCount =>
                scored[a].score > scored[b].score

\* C7 witness: under the default weights an item with two sources and an item
\* with one source were scored
C7_Witness ==
    /\ Returned
    /\ DefaultWeights
    /\ \E a \in 1..Len(scored) : \E b \in 1..Len(scored) :
         scored[a].sourceCount = 2 /\ scored[b].sourceCount = 1

\* the items of seq whose score is s, in the order of seq
WithScore(seq, s) == SelectSeq(seq, LAMBDA item : item.score = s)

NonIncreasing(seq) ==
    \A a \in 1..Len(seq) : \A b \in 1..Len(seq) : a < b => seq[a].score >= seq[b].score

\* C8: the ranked list is in non-increasing order of score, and the items of
\* each score stand in the order in which their clusters were consolidated.
C8_SortedDescendingAndStable ==
    Returned =>
        /\ NonIncreasing(scored)
        /\ NonIncreasing(topItems)
        /\ Len(scored) = Len(consolidated)
        /\ \A k \in 1..Len(scored) :
             WithScore(scored, scored[k].score)
               = WithScore(MapScores(consolidated, config), scored[k].score)

\* C8 witness: the sort moved an item forward, and two different items of equal
\* score were ranked
C8_Witness ==
    /\ Returned
    /\ Len(scored) = 3
    /\ scored # MapScores(consolidated, config)
    /\ \E k \in 1..2 :
         scored[k].score = scored[k + 1].score /\ scored[k] # scored[k + 1]

\* C9: for maxItems > 0 the digest has min(maxItems, number of consolidated
\* items) items, it is a prefix of the full sorted list, and no omitted item has
\* a strictly higher score than a returned one.
C9_TopItemsArePrefix ==
    (Returned /\ MaxItemsOf(config) > 0) =>
        /\ Len(topItems) = (IF MaxItemsOf(config) < Len(consolidated)
                             THEN MaxItemsOf(config) ELSE Len(consolidated))
        /\ topItems = SubSeq(scored, 1, Len(topItems))
        /\ \A k \in 1..Len(topItems) : \A o \in (Len(topItems) + 1)..Len(scored) :
             scored[o].score <= topItems[k].score

\* C9 witness: a positive maxItems cut off an item of strictly lower score
C9_Witness ==
    /\ Returned
    /\ MaxItemsOf(config) > 0
    /\ Len(topItems) > 0
    /\ Len(topItems) < Len(scored)
    /\ scored[Len(scored)].score < topItems[Len(topItems)].score

\* C10 as stated: for every maxItems <= 0 the engine returns an empty sequence
\* and raises no error.
C10_NonPositiveMaxItemsGivesEmpty ==
    (pc = "done" /\ MaxItemsOf(config) <= 0) => (topItems = <<>> /\ ~threw)

\* the returned similarity, a fraction
SimValue == similarity[1]

C12_SimilaritySymmetric ==
    similarity # None =>
        SimValue.num * jaccardSimilarity(argTokens2, argTokens1).den
            = jaccardSimilarity(argTokens2, argTokens1).num * SimValue.den

\* C12 witness: the similarity of arguments of different sizes that share a
\* token was computed
C12_Witness ==
    /\ similarity # None
    /\ Cardinality(SetOf(argTokens1)) < Cardinality(SetOf(argTokens2))
    /\ SimValue.num > 0

C14_EmptyBatchGivesEmpty ==
    (pc = "done" /\ Len(FlatMap(allHeadlines)) = 0) =>
        /\ ~threw
        /\ topItems = <<>>
        /\ returned = <<topItems>>

\* C14 witness: the engine has returned from a call on the empty batch
C14_Witness ==
    /\ pc = "done"
    /\ allHeadlines = <<>>
    /\ returned = << <<>> >>

\* C16: the clusters stand in the order of their seeds in the input, and the
\* members of a cluster stand in input order, the seed first.
C16_ClustersInSeedOrder ==
    pc = "done" =>
        /\ \A k \in 1..(Len(clusters) - 1) : clusters[k][1] < clusters[k + 1][1]
        /\ \A k \in 1..Len(clusters) : \A m \in 1..(Len(clusters[k]) - 1) :
             clusters[k][m] < clusters[k][m + 1]

\* C16 witness: a cluster of three whose later members come after the seed of
\* the cluster that follows it
C16_Witness ==
    /\ pc = "done"
    /\ \E k \in 1..(Len(clusters) - 1) :
         /\ Len(clusters[k]) = 3
         /\ clusters[k + 1][1] < clusters[k][2]

\* consolidation.maxItems as configured, None when it is not
OwnMaxItems ==
    IF config.consolidation = None THEN None ELSE config.consolidation[1].maxItems

\* consolidation.similarityThreshold as configured, None when it is not
OwnThreshold ==
    IF config.consolidation = None THEN None ELSE config.consolidation[1].similarityThreshold

\* the smaller of two numbers
Min(a, b) == IF a < b THEN a ELSE b

\* the clusters are those of seed-anchored grouping at the given threshold
AnchoredAt(threshold) ==
    \A j \in 1..Len(flatItems) :
        LET matching == {i \in Seeds(clusters) :
                            i < j /\ Similar(flatItems, i, j, threshold)}
        IN  IF matching = {}
            THEN j \in Seeds(clusters)
            ELSE /\ j \notin Seeds(clusters)
                 /\ clusters[ClusterOf(clusters, j)][1] = Least(matching)

TokenChars == Concat(resultTokens[1], 1)

\* seq[k..] holds the elements of sub[m..] in their order
RECURSIVE IsSubsequenceFrom(_, _, _, _)
IsSubsequenceFrom(sub, m, seq, k) ==
    IF m > Len(sub) THEN TRUE
    ELSE IF k > Len(seq) THEN FALSE
    ELSE IF sub[m] = seq[k] THEN IsSubsequenceFrom(sub, m + 1, seq, k + 1)
    ELSE IsSubsequenceFrom(sub, m, seq, k + 1)

\* C15: every token of the normalizer is lower-case, made of word characters
\* only, longer than 2 and no stop word; the tokens come in their order of
\* appearance in the text; the empty text gives no token.
C15_TokensAreClean ==
    resultTokens # None =>
        /\ \A k \in 1..Len(resultTokens[1]) :
             /\ \A c \in 1..Len(resultTokens[1][k]) :
                  resultTokens[1][k][c] \in LowerLetters \cup Digits \cup {"_"}
             /\ Len(resultTokens[1][k]) > 2
             /\ resultTokens[1][k] \notin STOP_WORDS
        /\ IsSubsequenceFrom(TokenChars, 1, toLowerCase(argText), 1)
        /\ argText = <<>> => resultTokens[1] = <<>>

\* C15 witness: a text in upper and lower case gave two different tokens
C15_Witness ==
    /\ resultTokens # None
    /\ Len(resultTokens[1]) = 2
    /\ resultTokens[1][1] # resultTokens[1][2]
    /\ \E k \in 1..Len(argText) : argText[k] \in UpperLetters

\* the name of the source a fetchNews record is about
FetchedName(k) == configSources[fetches[k].source].name

\* C18: a fetch that fails gives no headline of its source and stops nothing:
\* the sources are fetched one after the other to the last, the run can always
\* go on until the output file is written, and it is written once all are done.
C18_FailureIsContained ==
    /\ \A k \in 1..Len(fetches) :
         /\ fetches[k].source = k
         /\ fetches[k].failed =>
               /\ fetches[k].headlines = <<>>
               /\ \A n \in 1..Len(allNews) : allNews[n].source # FetchedName(k)
    /\ mainPc \in {"loop", "fallback", "delay"} => ENABLED NextFetch
    /\ mainPc = "written" => (Len(fetches) = Len(configSources) /\ outputFile # None)

\* C18 witness: the first source failed in both requests, the second after it
\* had handled a title, a later source gave headlines, and the digest is written
C18_Witness ==
    /\ mainPc = "written"
    /\ fetches[1].failed
    /\ Len(fetches[1].attempts) = 2
    /\ fetches[1].held > 0
    /\ \E k \in 2..Len(fetches) : Len(fetches[k].headlines) > 0
    /\ outputFile # None
    /\ outputFile[1].kind = "digest"
    /\ outputFile[1].sources = 1

\* the filter predicate: length within the bounds, no excluded pattern, and a
\* keyword when there are keywords, case ignored
SatisfiesFilter(headline, f) ==
    /\ f.minLength <= Len(headline)
    /\ Len(headline) <= f.maxLength
    /\ \A k \in 1..Len(f.excludePatterns) :
         ~Includes(toLowerCase(headline), toLowerCase(f.excludePatterns[k]))
    /\ Len(f.keywords) > 0 =>
         \E k \in 1..Len(f.keywords) :
            Includes(toLowerCase(headline), toLowerCase(f.keywords[k]))

\* C19: every headline handed to the engine, from a page or from the search
\* API, satisfies the filter predicate.
C19_EngineInputPassesFilters ==
    \A n \in 1..Len(allNews) : \A m \in 1..Len(allNews[n].headlines) :
        SatisfiesFilter(allNews[n].headlines[m], configFilter)

\* C19 witness: keywords are configured, a page and the search API both gave a
\* headline while each held a title that the filter rejects, and the engine
\* was called
C19_Witness ==
    /\ mainPc = "written"
    /\ Len(configFilter.keywords) > 0
    /\ \E k \in 1..Len(fetches) :
         /\ fetches[k].via = "page"
         /\ Len(fetches[k].headlines) > 0
         /\ fetches[k].held > Len(fetches[k].headlines)
    /\ \E k \in 1..Len(fetches) :
         /\ fetches[k].via \in {"gateway", "direct"}
         /\ Len(fetches[k].headlines) > 0
         /\ fetches[k].held > Len(fetches[k].headlines)

\* C20: every headline handed to the engine, from a page or from the search
\* API, is cleanHeadline of a title that the response of its source held:
\* whenever fetchNews has returned headlines, they are what main pushes to
\* allNews, and each is the cleaned form of a title of the response.
C20_EngineInputIsCleaned ==
    (mainPc = "delay" /\ Len(fetches[Len(fetches)].headlines) > 0) =>
        /\ allNews[Len(allNews)].headlines = fetches[Len(fetches)].headlines
        /\ \A m \in 1..Len(allNews[Len(allNews)].headlines) :
             \E r \in 1..Len(lastResponse) :
                allNews[Len(allNews)].headlines[m] = cleanHeadline(lastResponse[r])

\* C26 as stated: at every threshold up to 1, items with the same headline
\* string stand in the same cluster, and no headline text occurs twice in the
\* ranked digest.
C26_SameHeadlineSameCluster ==
    (Returned /\ Threshold <= 100) =>
        /\ \A i \in 1..Len(flatItems) : \A j \in 1..Len(flatItems) :
             flatItems[i].headline = flatItems[j].headline =>
                 ClusterOf(clusters, i) = ClusterOf(clusters, j)
        /\ \A a \in 1..Len(topItems) : \A b \in 1..Len(topItems) :
             topItems[a].headline = topItems[b].headline => a = b

\* C27: of a non-empty input a threshold of 0 or less makes one cluster with
\* all items in input order, and a threshold above 1 makes one cluster per
\* item, in input order.
C27_ThresholdExtremes ==
    (pc = "done" /\ Len(flatItems) > 0) =>
        /\ Threshold <= 0 => clusters = <<[k \in 1..Len(flatItems) |-> k]>>
        /\ Threshold > 100 => clusters = [k \in 1..Len(flatItems) |-> <<k>>]

\* C27 witness: at a threshold of 0 or less, four items of which one has no
\* token and two share no token were put in one cluster
C27_Witness ==
    /\ pc = "done"
    /\ Threshold <= 0
    /\ Len(flatItems) = 4
    /\ Len(clusters) = 1
    /\ \E i \in 1..4 : TokensOf[flatItems[i].headline] = <<>>
    /\ \E i \in 1..4 : \E j \in 1..4 :
         /\ i # j
         /\ TokensOf[flatItems[i].headline] # <<>>
         /\ ~Similar(flatItems, i, j, 1)


\* the items the fetches so far have returned, in the order of the fetches,
\* each with the name of its source
RECURSIVE ItemsFetchedFrom(_, _)
ItemsFetchedFrom(k, out) ==
    IF k > Len(fetches) THEN out
    ELSE ItemsFetchedFrom(k + 1,
            out \o [m \in 1..Len(fetches[k].headlines) |->
                      [source |-> FetchedName(k),
                       headline |-> StringOf(fetches[k].headlines[m])]])

\* C24: the sources are fetched strictly one at a time in configuration order:
\* the k-th fetch is of the k-th source, a fetch is begun only when every
\* earlier fetch has returned and been followed by its delay, consolidateNews
\* runs only when every source has been fetched, and the flat item list of the
\* engine holds the fetched headlines in source configuration order.
C24_OneAtATimeInOrder ==
    /\ \A k \in 1..Len(fetches) : fetches[k].source = k
    /\ delays <= Len(fetches)
    /\ Len(fetches) <= delays + 1
    /\ (mainPc = "delay") <=> (Len(fetches) = delays + 1)
    /\ mainPc \in {"loop", "fallback"} => sourceIndex = delays + 1
    /\ mainPc = "fallback" => (attempts # <<>> /\ Len(fetches) = sourceIndex - 1)
    /\ (pc = "off") <=> (mainPc \in {"loop", "fallback", "delay"} \/ outputFile = Some([kind |-> "apology"]))
    /\ pc # "off" =>
          /\ Len(fetches) = Len(configSources)
          /\ delays = Len(configSources)
          /\ flatItems = ItemsFetchedFrom(1, <<>>)

\* C24 witness: three sources were gone through, two of them gave headlines,
\* and the engine has run on the items of the earlier one before the later one's
C24_Witness ==
    /\ mainPc = "written"
    /\ pc = "done"
    /\ delays = 3
    /\ Len(allNews) = 2
    /\ Len(flatItems) >= 2
    /\ flatItems[1].source = FetchedName(1)
    /\ flatItems[Len(flatItems)].source = FetchedName(3)


\* the sources that returned at least one headline
Yielding == {k \in 1..Len(fetches) : Len(fetches[k].headlines) > 0}

\* what main leaves behind, with least as the smallest number of stories a
\* digest holds: nothing is written before the loop is over, main ends with
\* the file written once; with no headline from any source the file holds the
\* apology and consolidateNews was never invoked; otherwise it holds the digest
\* with the number of yielding sources and with numbered stories, at least
\* least and at most maxItems of them, each listing a source
MainOutput(least) ==
    /\ mainPc # "failed"
    /\ (mainPc = "written") <=> (outputFile # None)
    /\ mainPc = "written" =>
          /\ ~ENABLED NextFetch
          /\ Len(fetches) = Len(configSources)
          /\ IF Yielding = {}
             THEN /\ outputFile = Some([kind |-> "apology"])
                  /\ pc = "off"
                  /\ returned = <<>>
             ELSE /\ outputFile[1].kind = "digest"
                  /\ returned = <<topItems>>
                  /\ outputFile[1].sources = Cardinality(Yielding)
                  /\ Len(outputFile[1].stories) >= least
                  /\ Len(outputFile[1].stories) <= MaxItemsOf(config)
                  /\ \A n \in 1..Len(outputFile[1].stories) :
                        /\ outputFile[1].stories[n].headline = topItems[n].headline
                        /\ Len(outputFile[1].stories[n].sources) >= 1

\* C29 as stated: without any headline main writes the could-not-fetch
\* message and never invokes consolidateNews; otherwise it writes the digest
\* exactly once, with between 1 and maxItems numbered stories each listing at
\* least one source, and the reported source count is the number of sources
\* that returned at least one headline.
C29_DigestHasOneToMaxItemsStories == MainOutput(1)

\* C29 amended: as stated, with the digest holding between 1 and maxItems
\* stories when maxItems is at least 1, and no story when maxItems is 0.
C29_DigestHasUpToMaxItemsStories ==
    MainOutput(IF MaxItemsOf(config) >= 1 THEN 1 ELSE 0)

\* C29 witness: of three sources one returned nothing, the digest was written
\* for the two others and holds two stories
C29_Witness ==
    /\ mainPc = "written"
    /\ Len(fetches) = 3
    /\ Cardinality(Yielding) = 2
    /\ outputFile[1].kind = "digest"
    /\ outputFile[1].sources = 2
    /\ Len(outputFile[1].stories) = 2
    /\ MaxItemsOf(config) = DefaultMaxItems


\* the requests of one finished fetch of a search-API source, as C25 has them
GatewayThenDirect(tried, headlines) ==
    /\ Len(tried) \in {1, 2}
    /\ tried[1].api = "gateway"
    /\ (Len(tried) = 2) <=> ~tried[1].ok
    /\ Len(tried) = 2 => tried[2].api = "direct"
    /\ Cardinality({n \in 1..Len(tried) : tried[n].api = "direct"}) <= 1
    /\ ~tried[Len(tried)].ok => headlines = <<>>

\* C25: for a search-API source the gateway is tried first; the direct API is
\* tried only after the gateway attempt failed (a missing token included) and
\* at most once; when the direct attempt fails too (a missing API key
\* included) the source yields the empty list; a gateway attempt that
\* succeeded is never followed by a direct one.
C25_GatewayFirstDirectOnce ==
    /\ \A k \in 1..Len(fetches) :
          IF configSources[k].enabled /\ configSources[k].kind = "brave"
          THEN GatewayThenDirect(fetches[k].attempts, fetches[k].headlines)
          ELSE \A n \in 1..Len(fetches[k].attempts) : fetches[k].attempts[n].api = "page"
    /\ mainPc = "fallback" =>
          /\ Source.kind = "brave"
          /\ Len(attempts) = 1
          /\ attempts[1].api = "gateway"
          /\ ~attempts[1].ok
    /\ mainPc # "fallback" => attempts = <<>>

\* C25 witness: one search-API fetch took the direct API after the gateway
\* had no token and returned headlines, and the digest is written
C25_Witness ==
    /\ mainPc = "written"
    /\ \E k \in 1..Len(fetches) :
          /\ Len(fetches[k].attempts) = 2
          /\ fetches[k].attempts[1] = Request("gateway", FALSE, "credentials")
          /\ fetches[k].attempts[2] = Request("direct", TRUE, "none")
          /\ Len(fetches[k].headlines) > 0


\* C28: for every source kind the list a source contributes has at most
\* source.maxHeadlines entries and no headline twice; a disabled source
\* contributes the empty list and no request is made for it.
C28_AtMostMaxHeadlinesNoneTwice ==
    \A k \in 1..Len(fetches) :
        /\ Len(fetches[k].headlines) <= configSources[k].maxHeadlines
        /\ \A m, n \in 1..Len(fetches[k].headlines) :
              fetches[k].headlines[m] = fetches[k].headlines[n] => m = n
        /\ ~configSources[k].enabled =>
              (fetches[k].headlines = <<>> /\ fetches[k].attempts = <<>>)


\* C21: after every completed run of fetch-news.js that fetched news the
\* notification flag file exists, so that a following send-news.sh sends the
\* digest.
C21_FlagAfterFetchedRun ==
    (mainPc = "written" /\ Len(allNews) > 0) => flagFile


\* the flags of which a run of send-news.sh has yet to make a send: the one in
\* the file system and the one a run has removed and not yet acted on
FlagsPending ==
    (IF flagFile THEN 1 ELSE 0) + (IF sendPc \in {"news", "send"} THEN 1 ELSE 0)

\* C22: send-news.sh sends only when the flag file and the news file exist; it
\* removes the flag before it sends, so that each flag leads to at most one
\* send; a run that finds no flag sends nothing, changes no file and exits
\* with status 0.
C22_OneSendPerFlag ==
    /\ sends + FlagsPending <= flagsMade
    /\ sendLog <=> (sends > 0)
    /\ sendPc = "send" => (sendRun[1].sawFlag /\ sendRun[1].sawNews /\ "flag" \in sendRun[1].changed)
    /\ (sendRun # None /\ sendRun[1].sent # None) =>
          /\ sendRun[1].sawFlag
          /\ sendRun[1].sawNews
          /\ "flag" \in sendRun[1].changed
          /\ sendRun[1].sent[1] # None
    /\ (sendRun # None /\ sendPc = "idle") => sendRun[1].exit = Some(0)
    /\ (sendRun # None /\ sendPc # "flag" /\ ~sendRun[1].sawFlag) =>
          /\ sendPc = "idle"
          /\ sendRun[1].sent = None
          /\ sendRun[1].changed = {}

\* C22 witness: two flags were made and each led to one send, and the last
\* run of send-news.sh found no flag and ended without a send of its own
C22_Witness ==
    /\ flagsMade = 2
    /\ sends = 2
    /\ sendPc = "idle"
    /\ sendRun = Some([FreshSend EXCEPT !.exit = Some(0)])


\* C23: whenever the fetcher has not run for more than 25 hours, the next
\* run of the watchdog reports it unhealthy and attempts to restart it,
\* whatever watchdog and fetcher runs came before.
C23_StaleFetcherIsRestarted ==
    (wdRun # None /\ wdRun[1].stale) =>
        /\ ~wdRun[1].healthy
        /\ (wdPc = "restart" \/ wdRun[1].restart # "none")

\* C30: the last-run record is rewritten only after a healthy check or after
\* a restart that ended without error; after a failed restart the record is
\* as it was and the exit status is 1; a missing or unparsable record is
\* treated as unhealthy.
C30_RecordRewrittenOnlyOnSuccess ==
    wdRun # None =>
        /\ ~wdRun[1].untouched => (wdRun[1].healthy \/ wdRun[1].restart = "ok")
        /\ wdRun[1].restart \in {"failed", "threw"} =>
              (wdRun[1].untouched /\ wdRun[1].exit = Some(1))
        /\ wdRun[1].record \in {"missing", "unparsable"} => ~wdRun[1].healthy

====
